---------------------------- MODULE Spec2Model ----------------------------
(***************************************************************************)
(* SimplifyChat backend: the conversation/message store behind the HTTP    *)
(* endpoints of backend/app/api/endpoints/chat.py, the relational schema   *)
(* of backend/app/models/chat.py and alembic/versions/initial_migration.py *)
(* and the response parsing of backend/app/services/gemini.py.             *)
(*                                                                         *)
(* Every await of a handler on the store or on the external model is one   *)
(* atomic step; handlers of concurrent requests interleave between steps.  *)
(* An INSERT and its COMMIT are one step: the row lock the foreign key     *)
(* takes on the conversation keeps a concurrent DELETE out until then.     *)
(* The queries of the read-only handlers and the first SELECT of a handler *)
(* are taken to succeed; commits and the queries after them may fail.      *)
(* A text is a sequence of one-character strings.                          *)
(*                                                                         *)
(* Spec        concurrent create, get, delete and append, failing store    *)
(* SpecChats   every endpoint, one request at a time, store never failing  *)
(* SpecSummary summarize of one conversation over every external outcome   *)
(***************************************************************************)
EXTENDS Integers, Sequences, FiniteSets, TLC

\* ------------------------------------------------------------- bounds
\* uuid4 values handed out to rows (conversations and messages together).
MaxIds == 3
\* Values of the database clock, 1..MaxClock.
MaxClock == 2
\* Requests in flight at the same time.
MaxSessions == 2
\* Store steps that fail over one behaviour.
MaxFaults == 1
\* Blank-line separated sections of a generated external response.
MaxSections == 4

\* ------------------------------------------------------------ strings
NL == "\n"
SP == " "
DASH == "-"

\* Characters str.strip() removes when called without argument.
Whitespace == {SP, NL}

\* Characters point.strip('- ') removes: the argument is a character set.
MarkerChars == {DASH, SP}

Min(S) == CHOOSE x \in S : \A y \in S : x <= y
Max(S) == CHOOSE x \in S : \A y \in S : x >= y

\* str.strip(chars): drop leading and trailing characters that are in chars.
Strip(s, chars) ==
    LET keep == {i \in 1..Len(s) : s[i] \notin chars}
    IN  IF keep = {} THEN <<>> ELSE SubSeq(s, Min(keep), Max(keep))

\* str.split(sep) for a non-empty sep: leftmost, non-overlapping separators.
RECURSIVE Split(_, _)
Split(s, sep) ==
    LET hits == {i \in 1..(Len(s) - Len(sep) + 1) :
                    SubSeq(s, i, i + Len(sep) - 1) = sep}
    IN  IF hits = {} THEN <<s>>
        ELSE LET i == Min(hits)
             IN  <<SubSeq(s, 1, i - 1)>>
                   \o Split(SubSeq(s, i + Len(sep), Len(s)), sep)

\* seq[1:]
Rest(seq) == IF Len(seq) = 0 THEN <<>> ELSE Tail(seq)

\* "if point.strip()": the line holds a non-whitespace character.
Truthy(line) == Strip(line, Whitespace) # <<>>

\* point.strip('- ')
StripMarker(line) == Strip(line, MarkerChars)

RECURSIVE MapStripMarker(_)
MapStripMarker(lines) ==
    IF lines = <<>> THEN <<>>
    ELSE <<StripMarker(Head(lines))>> \o MapStripMarker(Tail(lines))

\* [p.strip('- ') for p in section.split('\n')[1:] if p.strip()]
ListItems(section) ==
    MapStripMarker(SelectSeq(Rest(Split(section, <<NL>>)), Truthy))

\* What the external model does with one prompt: it raises, or returns text.
Raises == [raises |-> TRUE, text |-> <<>>]
Returns(t) == [raises |-> FALSE, text |-> t]

\* A parser that pads the sections it misses instead of failing.
generate_summary_lenient(outcome) ==
    LET sections == Split(outcome.text, <<NL, NL>>) \o <<<<>>, <<>>>>
    IN  IF outcome.raises
        THEN [error |-> "ExternalError", summary |-> <<>>,
              key_points |-> <<>>, action_items |-> <<>>]
        ELSE [error |-> "none",
              summary |-> Strip(sections[1], Whitespace),
              key_points |-> ListItems(sections[2]),
              action_items |-> ListItems(sections[3])]

\* generate_summary from the awaited call on: the exception that escapes
\* ("none" if none does) and the returned dict.
generate_summary(outcome) ==
    LET sections == Split(outcome.text, <<NL, NL>>)
        failed(e) == [error |-> e, summary |-> <<>>,
                      key_points |-> <<>>, action_items |-> <<>>]
    IN  IF outcome.raises THEN failed("ExternalError")
        ELSE IF Len(sections) < 3 THEN failed("IndexError")
        ELSE [error |-> "none",
              summary |-> Strip(sections[1], Whitespace),
              key_points |-> ListItems(sections[2]),
              action_items |-> ListItems(sections[3])]


\* ------------------------------------------------------------- inputs
NoTitle == "<None>"
NoDate == 0
\* A uuid no request ever created: uuid4 values are handed out from 1 upwards.
UnusedId == 0

Owners == {"u1", "u2"}

\* ConversationCreate: user_id, participants, optional title.
ConversationCreate ==
    {[user_id |-> "u1", participants |-> <<"alice", "bob">>, title |-> "standup"],
     [user_id |-> "u2", participants |-> <<>>, title |-> NoTitle]}

\* MessageCreate: content and sender.
MessageCreate == {[content |-> "hi", sender |-> "alice"],
                  [content |-> "hello", sender |-> "bob"]}

\* Query(0, ge=0) and Query(10, ge=1, le=100), cut to the page sizes rows can fill.
Skips == 0..(MaxIds - 1)
Limits == 1..(MaxIds - 1)
Dates == {NoDate} \cup (1..MaxClock)

\* ---------------------------------------------------------- the state
VARIABLES
    conversations,  \* rows of table conversations
    messages,       \* rows of table messages
    nextId,         \* the next uuid4 value
    clock,          \* the database's now()
    faults,         \* store steps that have failed so far
    session,        \* per request in flight: the handler's position and locals
    response,       \* the HTTP response on the wire, NoResponse when there is none
    supplied,       \* history: id -> the body of the create request that made it
    appended,       \* history: conversation id -> message ids, in commit order
    deleted         \* history: ids whose delete request answered 200

vars == <<conversations, messages, nextId, clock, faults, session, response,
          supplied, appended, deleted>>

store == <<conversations, messages>>
history == <<supplied, appended, deleted>>

Sessions == 1..MaxSessions

Idle == [op |-> "idle", pc |-> "idle", id |-> UnusedId, input |-> <<>>,
         db_id |-> UnusedId, began |-> 0, absent |-> FALSE, calls |-> 0]

NoResponse == [op |-> "none", id |-> UnusedId, input |-> <<>>, status |-> 0,
               body |-> <<>>, db_id |-> UnusedId, absent |-> FALSE, calls |-> 0]

\* ------------------------------------------------------------- schema
\* Column id = primary key: at most one row per id.
Lookup(id) == {c \in conversations : c.id = id}

ConversationIds == {c.id : c \in conversations}

\* The orders in which a SELECT without ORDER BY may return the rows S.
Scans(S) ==
    {f \in [1..Cardinality(S) -> S] : \A x \in S : \E i \in DOMAIN f : f[i] = x}

\* relationship("Message", ...) loaded by selectinload: one SELECT over
\* messages, no ORDER BY, grouped by conversation in the order the rows came.
LoadedMessages(id, scan) == SelectSeq(scan, LAMBDA m : m.conversation_id = id)

\* The Conversation response schema, built from a row and its loaded messages.
ConversationSchema(c, scan) ==
    [id |-> c.id, user_id |-> c.user_id, created_at |-> c.created_at,
     participants |-> c.participants, title |-> c.title,
     messages |-> LoadedMessages(c.id, scan)]

\* A create that loses the optional title.
NewConversationNoTitle(id, input, now) ==
    [id |-> id, user_id |-> input.user_id, created_at |-> now,
     participants |-> input.participants, title |-> NoTitle]

\* Conversation(**conversation.model_dump()) as the INSERT stores it: the
\* columns of the request body, id from default=uuid4, created_at from now().
NewConversation(id, input, now) ==
    [id |-> id, user_id |-> input.user_id, created_at |-> now,
     participants |-> input.participants, title |-> input.title]

\* Message(conversation_id=conversation_id, **message.model_dump()) as stored.
NewMessage(id, conversation_id, input, now) ==
    [id |-> id, conversation_id |-> conversation_id, content |-> input.content,
     sender |-> input.sender, created_at |-> now]

\* A messages table without the foreign key.
ForeignKeyUnchecked(conversation_id) == TRUE

\* ForeignKeyConstraint(['conversation_id'], ['conversations.id']): an INSERT
\* into messages is accepted only while the referenced conversation exists.
ForeignKeyHolds(conversation_id) == conversation_id \in ConversationIds

\* A relationship and a foreign key that do not cascade.
CascadeDeleteNone(id) == messages

\* ondelete='CASCADE' and cascade="all, delete-orphan": the messages that
\* survive the deletion of conversation id.
CascadeDelete(id) == {m \in messages : m.conversation_id # id}

\* "except Exception as e: ... raise HTTPException(status_code=500)": the
\* clause catches every exception raised in the try block, the handler's own
\* HTTPException(status_code=404) included, and answers 500.
ExceptException(raised) == 500

\* History: the id was never created or its delete has already answered 200.
Absent(id) == id \notin DOMAIN supplied \/ id \in deleted

\* ------------------------------------------------------------ replies
Reply(s, op, id, input, status, body, db_id, absent, calls) ==
    /\ response' = [op |-> op, id |-> id, input |-> input, status |-> status,
                    body |-> body, db_id |-> db_id, absent |-> absent,
                    calls |-> calls]
    /\ session' = [session EXCEPT ![s] = Idle]

\* The handler in session s ends with the given status and body.
Finish(s, status, body) ==
    Reply(s, session[s].op, session[s].id, session[s].input, status, body,
          session[s].db_id, session[s].absent, session[s].calls)

\* No reply is on the wire: replies are delivered one at a time, before the
\* next handler step.
Quiet == response = NoResponse

\* The handler of session s is at position pc of operation op.
At(s, op, pc) ==
    /\ Quiet
    /\ session[s].op = op
    /\ session[s].pc = pc

\* A new request takes the first session that is not in use.
Free(s) ==
    /\ Quiet
    /\ session[s].op = "idle"
    /\ \A t \in Sessions : t < s => session[t].op # "idle"

\* A store step may fail (connectivity loss) while failures remain.
MayFail(fault) == fault => faults < MaxFaults
CountFault(fault) == faults' = IF fault THEN faults + 1 ELSE faults

Init ==
    /\ conversations = {}
    /\ messages = {}
    /\ nextId = 1
    /\ clock = 1
    /\ faults = 0
    /\ session = [s \in Sessions |-> Idle]
    /\ response = NoResponse
    /\ supplied = <<>>
    /\ appended = <<>>
    /\ deleted = {}

\* The reply on the wire reaches its client.
Deliver ==
    /\ response # NoResponse
    /\ response' = NoResponse
    /\ UNCHANGED <<conversations, messages, nextId, clock, faults, session, history>>

\* now() advances.
Tick ==
    /\ Quiet
    /\ clock < MaxClock
    /\ clock' = clock + 1
    /\ UNCHANGED <<conversations, messages, nextId, faults, session, response, history>>

\* Ids a client can name: those handed out so far and one never handed out.
KnownIds == 0..(nextId - 1)

MessagesOf(id) == {m \in messages : m.conversation_id = id}

\* ------------------------------------------- POST /chats (lines 18-41)
\* db.add + db.commit: the INSERT runs in a transaction that begins with it,
\* so server_default now() is the time of this step.
create_conversation_commit(s, input, fault) ==
    /\ Free(s)
    /\ MayFail(fault)
    /\ CountFault(fault)
    /\ IF fault
       THEN /\ Reply(s, "create_conversation", UnusedId, input,
                     ExceptException("OperationalError"), <<>>, UnusedId, FALSE, 0)
            /\ UNCHANGED <<conversations, messages, nextId, clock, history>>
       ELSE /\ nextId <= MaxIds
            /\ conversations' = conversations \cup {NewConversation(nextId, input, clock)}
            /\ nextId' = nextId + 1
            /\ supplied' = supplied @@ (nextId :> input)
            /\ appended' = appended @@ (nextId :> <<>>)
            /\ session' = [session EXCEPT ![s] =
                 [op |-> "create_conversation", pc |-> "refresh", id |-> nextId,
                  input |-> input, db_id |-> nextId, began |-> clock,
                  absent |-> FALSE, calls |-> 0]]
            /\ UNCHANGED <<messages, clock, response, deleted>>

\* db.refresh(db_conversation): raises when the store fails or the row is gone.
\* The rollback of the except clause finds nothing to undo: the row is committed.
create_conversation_refresh(s, fault) ==
    /\ At(s, "create_conversation", "refresh")
    /\ MayFail(fault)
    /\ CountFault(fault)
    /\ IF fault \/ Lookup(session[s].id) = {}
       THEN Finish(s, ExceptException("InvalidRequestError"), <<>>)
       ELSE /\ session' = [session EXCEPT ![s].pc = "reload"]
            /\ UNCHANGED response
    /\ UNCHANGED <<conversations, messages, nextId, clock, history>>

\* The reload with selectinload and result.scalar_one().
create_conversation_reload(s, fault, scan) ==
    /\ At(s, "create_conversation", "reload")
    /\ MayFail(fault)
    /\ CountFault(fault)
    /\ scan \in Scans(MessagesOf(session[s].id))
    /\ IF fault \/ Lookup(session[s].id) = {}
       THEN Finish(s, ExceptException("NoResultFound"), <<>>)
       ELSE \E c \in Lookup(session[s].id) :
              Finish(s, 200, <<ConversationSchema(c, scan)>>)
    /\ UNCHANGED <<conversations, messages, nextId, clock, history>>

\* ------------------------------- GET /chats/{id} (lines 43-60)
get_conversation(id, scan) ==
    /\ \E s \in Sessions : Free(s)
    /\ scan \in Scans(MessagesOf(id))
    /\ response' =
         [op |-> "get_conversation", id |-> id, input |-> <<>>,
          status |-> IF Lookup(id) = {} THEN ExceptException("HTTPException404")
                     ELSE 200,
          body |-> IF Lookup(id) = {} THEN <<>>
                   ELSE <<ConversationSchema(CHOOSE c \in Lookup(id) : TRUE, scan)>>,
          db_id |-> UnusedId, absent |-> Absent(id), calls |-> 0]
    /\ UNCHANGED <<conversations, messages, nextId, clock, faults, session, history>>

\* ------------------------ GET /users/{user_id}/chats (lines 62-84)
\* Date bounds compared with > and <.
MatchingExclusive(user_id, start_date, end_date) ==
    {c \in conversations :
        /\ c.user_id = user_id
        /\ (start_date # NoDate => c.created_at > start_date)
        /\ (end_date # NoDate => c.created_at < end_date)}

\* The WHERE clauses: the owner, and each date bound when it is given.
Matching(user_id, start_date, end_date) ==
    {c \in conversations :
        /\ c.user_id = user_id
        /\ (start_date # NoDate => c.created_at >= start_date)
        /\ (end_date # NoDate => c.created_at <= end_date)}

\* order_by(desc(created_at)): rows of equal created_at come in any order.
Descending(order) ==
    \A i, j \in DOMAIN order : i < j => order[i].created_at >= order[j].created_at

\* .offset(skip).limit(limit)
Page(order, skip, limit) ==
    SubSeq(order, skip + 1, IF skip + limit < Len(order) THEN skip + limit
                            ELSE Len(order))

\* The messages selectinload fetches for the rows of the page, in one SELECT.
PageMessages(order, skip, limit) ==
    UNION {MessagesOf(Page(order, skip, limit)[i].id) :
             i \in DOMAIN Page(order, skip, limit)}

RECURSIVE SchemaList(_, _)
SchemaList(rows, scan) ==
    IF rows = <<>> THEN <<>>
    ELSE <<ConversationSchema(Head(rows), scan)>> \o SchemaList(Tail(rows), scan)

get_user_chats(user_id, skip, limit, start_date, end_date, order, scan) ==
    /\ \E s \in Sessions : Free(s)
    /\ order \in Scans(Matching(user_id, start_date, end_date))
    /\ Descending(order)
    /\ scan \in Scans(PageMessages(order, skip, limit))
    /\ response' =
         [op |-> "get_user_chats", id |-> UnusedId,
          input |-> [user_id |-> user_id, skip |-> skip, limit |-> limit,
                     start_date |-> start_date, end_date |-> end_date],
          status |-> 200,
          body |-> SchemaList(Page(order, skip, limit), scan),
          db_id |-> UnusedId, absent |-> FALSE, calls |-> 0]
    /\ UNCHANGED <<conversations, messages, nextId, clock, faults, session, history>>

\* ------------------------- DELETE /chats/{id} (lines 86-105)
delete_conversation_select(s, id) ==
    /\ Free(s)
    /\ IF Lookup(id) = {}
       THEN Reply(s, "delete_conversation", id, <<>>,
                  ExceptException("HTTPException404"), <<>>, UnusedId, Absent(id), 0)
       ELSE /\ session' = [session EXCEPT ![s] =
                 [op |-> "delete_conversation", pc |-> "commit", id |-> id,
                  input |-> <<>>, db_id |-> UnusedId, began |-> clock,
                  absent |-> Absent(id), calls |-> 0]]
            /\ UNCHANGED response
    /\ UNCHANGED <<conversations, messages, nextId, clock, faults, history>>

\* db.delete + db.commit. The ORM deletes the messages it loaded and the
\* conversation row; the foreign key's ON DELETE CASCADE removes any message
\* committed since. A DELETE that matches no row (the row went in a concurrent
\* delete) is a mapper warning, not an exception.
delete_conversation_commit(s, fault) ==
    /\ At(s, "delete_conversation", "commit")
    /\ MayFail(fault)
    /\ CountFault(fault)
    /\ IF fault
       THEN /\ Finish(s, ExceptException("OperationalError"), <<>>)
            /\ UNCHANGED <<conversations, messages, deleted>>
       ELSE /\ conversations' = conversations \ Lookup(session[s].id)
            /\ messages' = CascadeDelete(session[s].id)
            /\ deleted' = deleted \cup {session[s].id}
            /\ Finish(s, 200, <<"Conversation deleted successfully">>)
    /\ UNCHANGED <<nextId, clock, supplied, appended>>

\* ------------------ POST /chats/{id}/messages (lines 107-142)
\* The first SELECT begins the transaction the INSERT will run in.
add_message_select(s, id, input) ==
    /\ Free(s)
    /\ IF Lookup(id) = {}
       THEN Reply(s, "add_message", id, input,
                  ExceptException("HTTPException404"), <<>>, UnusedId, Absent(id), 0)
       ELSE /\ session' = [session EXCEPT ![s] =
                 [op |-> "add_message", pc |-> "commit", id |-> id,
                  input |-> input, db_id |-> UnusedId, began |-> clock,
                  absent |-> Absent(id), calls |-> 0]]
            /\ UNCHANGED response
    /\ UNCHANGED <<conversations, messages, nextId, clock, faults, history>>

\* db.add(db_message) + db.commit: the INSERT is checked against the foreign
\* key; now() is the start of the transaction.
add_message_commit(s, fault) ==
    /\ At(s, "add_message", "commit")
    /\ MayFail(fault)
    /\ CountFault(fault)
    /\ IF fault \/ ~ForeignKeyHolds(session[s].id)
       THEN /\ Finish(s, ExceptException("IntegrityError"), <<>>)
            /\ UNCHANGED <<messages, nextId, appended>>
       ELSE /\ nextId <= MaxIds
            /\ messages' = messages \cup
                 {NewMessage(nextId, session[s].id, session[s].input, session[s].began)}
            /\ nextId' = nextId + 1
            /\ appended' = [appended EXCEPT ![session[s].id] = Append(@, nextId)]
            /\ session' = [session EXCEPT ![s].pc = "reload", ![s].db_id = nextId]
            /\ UNCHANGED response
    /\ UNCHANGED <<conversations, clock, supplied, deleted>>

\* The reload with selectinload and result.scalar_one().
add_message_reload(s, fault, scan) ==
    /\ At(s, "add_message", "reload")
    /\ MayFail(fault)
    /\ CountFault(fault)
    /\ scan \in Scans(MessagesOf(session[s].id))
    /\ IF fault \/ Lookup(session[s].id) = {}
       THEN Finish(s, ExceptException("NoResultFound"), <<>>)
       ELSE \E c \in Lookup(session[s].id) :
              Finish(s, 200, <<ConversationSchema(c, scan)>>)
    /\ UNCHANGED <<conversations, messages, nextId, clock, history>>

\* ----------------- POST /chats/{id}/summarize (lines 144-162)
\* A handler that goes on to summarize whether or not it found the row.
summarize_conversation_unchecked(s, id) ==
    /\ Free(s)
    /\ session' = [session EXCEPT ![s] =
         [op |-> "summarize_conversation", pc |-> "call", id |-> id,
          input |-> <<>>, db_id |-> UnusedId, began |-> clock,
          absent |-> Absent(id), calls |-> 0]]
    /\ UNCHANGED <<conversations, messages, nextId, clock, faults, response, history>>

summarize_conversation_select(s, id) ==
    /\ Free(s)
    /\ IF Lookup(id) = {}
       THEN Reply(s, "summarize_conversation", id, <<>>,
                  ExceptException("HTTPException404"), <<>>, UnusedId, Absent(id), 0)
       ELSE /\ session' = [session EXCEPT ![s] =
                 [op |-> "summarize_conversation", pc |-> "call", id |-> id,
                  input |-> <<>>, db_id |-> UnusedId, began |-> clock,
                  absent |-> Absent(id), calls |-> 0]]
            /\ UNCHANGED response
    /\ UNCHANGED <<conversations, messages, nextId, clock, faults, history>>

\* await model.generate_content_async(prompt), then the parsing.
summarize_conversation_call(s, outcome) ==
    /\ At(s, "summarize_conversation", "call")
    /\ LET r == generate_summary(outcome)
       IN  Reply(s, session[s].op, session[s].id, outcome,
                 IF r.error = "none" THEN 200 ELSE ExceptException(r.error),
                 IF r.error = "none"
                 THEN <<[summary |-> r.summary, key_points |-> r.key_points,
                         action_items |-> r.action_items]>>
                 ELSE <<>>,
                 UnusedId, session[s].absent, session[s].calls + 1)
    /\ UNCHANGED <<conversations, messages, nextId, clock, faults, history>>

\* ------------------------------------------- external response texts
RECURSIVE Join(_, _)
Join(parts, sep) ==
    IF parts = <<>> THEN <<>>
    ELSE IF Len(parts) = 1 THEN parts[1]
    ELSE parts[1] \o sep \o Join(Tail(parts), sep)

\* Sections an answer of the external model is made of: paragraphs, a header
\* alone, the empty section, and lists whose lines carry the "- " marker,
\* further '-' and ' ' characters, blanks, or no marker at all.
SectionPool ==
    { <<"a", SP, "b">>,                                        \* "a b"
      <<SP, "a", NL>>,                                         \* " a\n"
      <<"h">>,                                                 \* "h"
      <<>>,                                                    \* ""
      <<"h", NL, DASH, SP, "a">>,                              \* "h\n- a"
      <<"h", NL, DASH, SP, "a", SP, DASH, NL, SP, NL, SP, "b">>, \* "h\n- a -\n \n b"
      <<"h", NL, DASH, SP, DASH, SP, "b", NL, DASH>>,          \* "h\n- - b\n-"
      <<DASH, SP, "a", NL, DASH, SP, "b">> }                   \* "- a\n- b"

\* Every text of 1..MaxSections pooled sections joined by blank lines.
Texts ==
    UNION { { Join(p, <<NL, NL>>) : p \in [1..n -> SectionPool] } : n \in 1..MaxSections }

Outcomes == {Raises} \cup {Returns(t) : t \in Texts}

\* The outcomes the store specification draws from.
SampleOutcomes ==
    { Raises,
      Returns(<<"a", SP, "b">>),
      Returns(Join(<<<<"a">>, <<"h", NL, DASH, SP, "a">>,
                     <<"h", NL, DASH, SP, "b">>>>, <<NL, NL>>)) }

\* ------------------------------------------------------ specifications
\* The handlers, for requests in the sessions ss and store steps that fail
\* as ff allows.
create_conversation(ss, ff) ==
    \/ \E s \in ss, input \in ConversationCreate, fault \in ff :
          create_conversation_commit(s, input, fault)
    \/ \E s \in ss, fault \in ff : create_conversation_refresh(s, fault)
    \/ \E s \in ss, fault \in ff :
          \E scan \in Scans(MessagesOf(session[s].id)) : create_conversation_reload(s, fault, scan)

delete_conversation(ss, ff) ==
    \/ \E s \in ss, id \in KnownIds : delete_conversation_select(s, id)
    \/ \E s \in ss, fault \in ff : delete_conversation_commit(s, fault)

add_message(ss, ff) ==
    \/ \E s \in ss, id \in KnownIds, input \in MessageCreate :
          add_message_select(s, id, input)
    \/ \E s \in ss, fault \in ff : add_message_commit(s, fault)
    \/ \E s \in ss, fault \in ff :
          \E scan \in Scans(MessagesOf(session[s].id)) : add_message_reload(s, fault, scan)

Get ==
    /\ Quiet
    /\ \E id \in KnownIds : \E scan \in Scans(MessagesOf(id)) :
          get_conversation(id, scan)

List ==
    /\ Quiet
    /\ \E user_id \in Owners, skip \in Skips, limit \in Limits,
          start_date \in Dates, end_date \in Dates :
          \E order \in Scans(Matching(user_id, start_date, end_date)) :
          \E scan \in Scans(PageMessages(order, skip, limit)) :
             get_user_chats(user_id, skip, limit, start_date, end_date, order, scan)

summarize_conversation(ss, outcomes) ==
    \/ \E s \in ss, id \in KnownIds : summarize_conversation_select(s, id)
    \/ \E s \in ss, outcome \in outcomes : summarize_conversation_call(s, outcome)

\* Concurrent requests against a store whose steps may fail.
Next ==
    \/ Deliver
    \/ Tick
    \/ create_conversation(Sessions, BOOLEAN)
    \/ delete_conversation(Sessions, BOOLEAN)
    \/ add_message(Sessions, BOOLEAN)
    \/ Get

Spec == Init /\ [][Next]_vars

\* One request at a time against a store that does not fail: every endpoint.
NextChats ==
    \/ Deliver
    \/ Tick
    \/ create_conversation({1}, {FALSE})
    \/ delete_conversation({1}, {FALSE})
    \/ add_message({1}, {FALSE})
    \/ Get
    \/ List
    \/ summarize_conversation({1}, SampleOutcomes)

SpecChats == Init /\ [][NextChats]_vars

\* Summaries of one stored conversation with two messages (a state the
\* handlers reach from Init), over every outcome of the external call.
InitSummary ==
    /\ conversations = {[id |-> 1, user_id |-> "u1", created_at |-> 1,
                         participants |-> <<"alice", "bob">>, title |-> "standup"]}
    /\ messages = {[id |-> 2, conversation_id |-> 1, content |-> "hi",
                    sender |-> "alice", created_at |-> 1],
                   [id |-> 3, conversation_id |-> 1, content |-> "hello",
                    sender |-> "bob", created_at |-> 1]}
    /\ nextId = 4
    /\ clock = 1
    /\ faults = 0
    /\ session = [s \in Sessions |-> Idle]
    /\ response = NoResponse
    /\ supplied = (1 :> [user_id |-> "u1", participants |-> <<"alice", "bob">>,
                         title |-> "standup"])
    /\ appended = (1 :> <<2, 3>>)
    /\ deleted = {}

NextSummary ==
    \/ Deliver
    \/ summarize_conversation({1}, Outcomes)

SpecSummary == InitSummary /\ [][NextSummary]_vars

\* ---------------------------------------------------------- properties
RECURSIVE IdsOf(_)
IdsOf(rows) == IF rows = <<>> THEN <<>> ELSE <<Head(rows).id>> \o IdsOf(Tail(rows))

Mutating == {"create_conversation", "add_message", "delete_conversation"}
Reading == {"get_conversation", "get_user_chats", "summarize_conversation"}

\* C1: a get of an id that a create made, with no delete of it since, answers
\* 200 with the owner, participants and title the create was given, and with
\* no messages when none was appended.
C1_CreateThenGet ==
    (/\ response.op = "get_conversation"
     /\ response.id \in DOMAIN supplied
     /\ response.id \notin deleted)
    => /\ response.status = 200
       /\ Len(response.body) = 1
       /\ response.body[1].id = response.id
       /\ response.body[1].user_id = supplied[response.id].user_id
       /\ response.body[1].participants = supplied[response.id].participants
       /\ response.body[1].title = supplied[response.id].title
       /\ (appended[response.id] = <<>> => response.body[1].messages = <<>>)

\* A fresh conversation with a title and participants has been fetched.
C1_Witness ==
    /\ response.op = "get_conversation"
    /\ response.status = 200
    /\ response.id \in DOMAIN supplied
    /\ appended[response.id] = <<>>
    /\ response.body[1].title = "standup"
    /\ response.body[1].participants = <<"alice", "bob">>
    /\ response.body[1].messages = <<>>

\* C2: a get answers the messages of the conversation in the order in which
\* their appends committed.
C2_AppendOrder ==
    (response.op = "get_conversation" /\ response.status = 200)
    => IdsOf(response.body[1].messages) = appended[response.id]

\* C3: once a delete of an id has answered 200, the store holds no
\* conversation with that id and no message that refers to it.
C3_DeletedStaysDeleted ==
    \A id \in deleted : Lookup(id) = {} /\ MessagesOf(id) = {}

\* A conversation that had messages was deleted, and rows were made after it.
C3_Witness ==
    \E id \in deleted : appended[id] # <<>> /\ nextId > id + 2

\* C4: get, delete and append on an id that was never created or is already
\* deleted answer 404.
C4_NotFound ==
    (/\ response.op \in {"get_conversation", "delete_conversation", "add_message"}
     /\ response.absent)
    => response.status = 404

\* C5: a listing is the page [skip+1 .. skip+limit] of the owner's
\* conversations within the inclusive date bounds, newest first.
ListReference(in) ==
    {c \in conversations :
        /\ c.user_id = in.user_id
        /\ (in.start_date = NoDate \/ in.start_date <= c.created_at)
        /\ (in.end_date = NoDate \/ c.created_at <= in.end_date)}

C5_ListPage ==
    response.op = "get_user_chats"
    => LET in == response.input
           page == response.body
           ref == ListReference(in)
           left == Cardinality(ref) - in.skip
       IN  /\ response.status = 200
           /\ Len(page) <= in.limit
           /\ Len(page) = IF left < 0 THEN 0 ELSE IF left < in.limit THEN left
                          ELSE in.limit
           /\ \A i \in DOMAIN page :
                /\ page[i].user_id = in.user_id
                /\ \E c \in ref : /\ c.id = page[i].id
                                  /\ c.created_at = page[i].created_at
                                  /\ c.participants = page[i].participants
                                  /\ c.title = page[i].title
                /\ Cardinality({c \in ref : c.created_at > page[i].created_at})
                     <= in.skip + i - 1
                /\ Cardinality({c \in ref : c.created_at >= page[i].created_at})
                     >= in.skip + i
           /\ \A i, j \in DOMAIN page :
                i < j => /\ page[i].id # page[j].id
                         /\ page[i].created_at >= page[j].created_at

\* A page that skips a row, is cut by limit and by a date bound, over rows of
\* both owners.
C5_Witness ==
    /\ response.op = "get_user_chats"
    /\ response.input.skip = 1
    /\ response.input.limit = 1
    /\ response.input.start_date = 2
    /\ Len(response.body) = 1
    /\ \E c \in conversations : c.user_id = response.input.user_id /\ c.created_at = 1
    /\ Cardinality(ListReference(response.input)) = 2

\* C6: a create, append or delete that answers an error has left no row of
\* its own in the store.
C6_FailureLeavesNoTrace ==
    (response.op \in Mutating /\ response.status # 200)
    => /\ \A c \in conversations : c.id # response.db_id
       /\ \A m \in messages : m.id # response.db_id

\* C7: every stored message refers to a stored conversation.
C7_NoOrphans ==
    \A m \in messages : \E c \in conversations : c.id = m.conversation_id

\* An append found its conversation, a delete of it committed, and the
\* append's insert was then rejected without any store failure.
C7_Witness ==
    /\ response.op = "add_message"
    /\ ~response.absent
    /\ response.id \in deleted
    /\ response.db_id = UnusedId
    /\ response.status = 500
    /\ faults = 0

\* Blank-line separators of a text, counted from position i on, left to right.
RECURSIVE Separators(_, _)
Separators(text, i) ==
    IF i + 1 > Len(text) THEN 0
    ELSE IF text[i] = NL /\ text[i + 1] = NL THEN 1 + Separators(text, i + 2)
    ELSE Separators(text, i + 1)

Unusable(outcome) == outcome.raises \/ Separators(outcome.text, 1) < 2

\* C8: a summarize of an existing conversation makes one external call, and
\* when the call raises or its text has fewer than three sections the answer
\* is 500 with no summary, key points or action items.
C8_SummaryFailure ==
    (response.op = "summarize_conversation" /\ ~response.absent)
    => /\ response.calls = 1
       /\ Unusable(response.input) => (response.status = 500 /\ response.body = <<>>)

\* A text of exactly two sections was answered with 500.
C8_Witness ==
    /\ response.op = "summarize_conversation"
    /\ ~response.absent
    /\ ~response.input.raises
    /\ Separators(response.input.text, 1) = 1
    /\ response.status = 500
    /\ response.calls = 1

\* C9: the list of a section: its lines after the first, blank lines dropped,
\* each without one leading "- " marker and otherwise unchanged.
WithoutMarker(line) ==
    IF Len(line) >= 2 /\ line[1] = DASH /\ line[2] = SP
    THEN SubSeq(line, 3, Len(line)) ELSE line

RECURSIVE MapWithoutMarker(_)
MapWithoutMarker(lines) ==
    IF lines = <<>> THEN <<>>
    ELSE <<WithoutMarker(Head(lines))>> \o MapWithoutMarker(Tail(lines))

ReferenceItems(section) ==
    MapWithoutMarker(SelectSeq(Rest(Split(section, <<NL>>)), Truthy))

C9_ParsedFields ==
    (response.op = "summarize_conversation" /\ response.status = 200)
    => LET sections == Split(response.input.text, <<NL, NL>>)
       IN  /\ response.body[1].summary = Strip(sections[1], Whitespace)
           /\ response.body[1].key_points = ReferenceItems(sections[2])
           /\ response.body[1].action_items = ReferenceItems(sections[3])

\* C10: a step of get, list or summarize leaves every row of the store as it
\* was, and a summarize of an id that has no conversation makes no external
\* call.
ReadStep ==
    \/ response' # NoResponse /\ response'.op \in Reading
    \/ \E s \in Sessions : /\ session'[s].op = "summarize_conversation"
                           /\ session[s].op # "summarize_conversation"

C10_ReadsLeaveStore ==
    /\ [][ReadStep => (conversations' = conversations /\ messages' = messages)]_vars
    /\ [](response.op = "summarize_conversation" /\ response.absent
            => response.calls = 0)

\* A summarization failed after its external call while the store held rows.
C10_Witness ==
    /\ response.op = "summarize_conversation"
    /\ response.status = 500
    /\ response.calls = 1
    /\ messages # {}

=============================================================================
